---- MODULE Spec2Model ----
(***************************************************************************)
(* git-checkout-recent: an interactive switcher between local branches.    *)
(*                                                                         *)
(* Two variants of the program are present in the source tree:             *)
(*   - src/src/main.rs : the whole program in one file (main, enumeration,  *)
(*     ranking, StatefulTable, selection loop, checkout);                  *)
(*   - src/src/git.rs + src/src/ui.rs : the same pieces split in modules    *)
(*     (BranchRecord derivation, BranchTable, selection loop).             *)
(* Spec   is the run of main.rs, from Repository::open to process exit.    *)
(* SpecUi is the selection loop of ui.rs over a given record list.         *)
(***************************************************************************)
EXTENDS Integers, Sequences, FiniteSets, TLC

\* ------------------------------------------------------------------ bounds
\* Number of local branches the repository may hold.
MaxBranches == 3
\* Number of distinct commits branch tips may point to.
NumCommits == 3

\* Number of valid branches in the runs of the ranking step on its own.
MaxListed == 51

\* ------------------------------------------------------- program constants
\* Visual rows per record (header line, message line, separator).
RowsPerRecord == 3

\* ------------------------------------------------------------ Option<T>
\* Option<T> is a sequence of length at most one.
None == <<>>
Some(x) == <<x>>
Unwrap(o) == o[1]

\* ------------------------------------------------------------ repository
Commits == 1..NumCommits

\* commit.time().seconds() of a commit; not monotone in the commit id, and
\* two commits may carry the same time.
CommitTime(c) == 100 * (1 + (c % 3))

\* A local branch as the backend hands it out:
\*   name    : result of branch.name()  ("ok" = Ok(Some), "none" = Ok(None),
\*             "err" = Err)
\*   refname : reference.name() is Some
\*   commit  : the commit peel_to_commit() yields, 0 when it fails
\*   summary : commit.summary() is Some
\*   author  : commit.author().name() is Some
RawBranches == [name : {"ok", "none", "err"}, refname : BOOLEAN, commit : 0..NumCommits, summary : BOOLEAN, author : BOOLEAN]

\* The raw branches drawn during the run of main.rs: every way a branch is
\* kept or dropped, with decodable name and summary.
EnumInputs == {b \in RawBranches : b.name # "none" /\ b.summary}

VARIABLES
  pc,            \* position of the run
  repoState,     \* repo.state(): "Clean" or "Merge"
  nBranches,     \* number of local branches in the repository
  head,          \* HEAD: None when detached, Some(ref) when on a branch
  workTree,      \* commit whose tree the working directory holds
  iter,          \* branches already visited by the enumeration
  records,       \* Vec<BranchRecord>
  cursor,        \* table.state.selected(): Option<usize>
  selected,      \* main.rs local `selected`: Option<usize>
  result,        \* value returned by render_branch_selection (Option<record>)
  treeish,       \* object resolved by revparse_single (Option<commit>)
  stdout,        \* lines printed by main()
  exitCode,      \* process exit status, -1 while running
  gitCalls,      \* mutating/resolving backend calls made by checkout_branch
  checkoutCalls, \* number of calls of checkout_branch
  checkoutErr,   \* step of checkout_branch that failed, "none" otherwise
  outcome,       \* how the run ended
  quitPressed,   \* history: the quit key was received in the loop
  keyAfterQuit,  \* history: a key event was processed after the quit key
  head0,         \* history: HEAD when the run started
  workTree0,     \* history: working tree when the run started
  termSession,   \* terminal session: "none", "raw" (raw mode, alternate screen), "released"
  lastKey,       \* history: the last key event the loop handled
  current_branch_refname, \* git.rs extract_local_branches local: Option<ref>
  resolvable     \* history: refs of the visited branches whose fields all resolve

vars == <<pc, repoState, nBranches, head, workTree, iter, records, cursor, selected, result, treeish, stdout, exitCode, gitCalls, checkoutCalls, checkoutErr, outcome, quitPressed, keyAfterQuit, head0, workTree0, termSession, lastKey, current_branch_refname, resolvable>>

repoVars == <<repoState, nBranches, head, workTree, head0, workTree0>>
checkoutVars == <<treeish, gitCalls, checkoutCalls, checkoutErr>>
histVars == <<quitPressed, keyAfterQuit>>
enumVars == <<current_branch_refname, resolvable>>

\* A printed line: the message and the ref of the record it is about (0 if none).
Line(msg, ref) == [msg |-> msg, ref |-> ref]

\* ---------------------------------------------------------- enumeration
\* main.rs get_current_branch_refname: None when HEAD is detached, else the
\* name of the reference HEAD points to.
get_current_branch_refname(h) == IF h = None THEN None ELSE Some(Unwrap(h))

\* main.rs parse_local_branch: the record of raw branch b whose reference is
\* ref, or None.  An undecodable name (Ok(None)) and a missing summary keep
\* their "unknown" default; a name error, a missing reference name, a failed
\* peel and a missing author name drop the branch.
parse_local_branch(b, ref, headRefname) ==
  LET is_valid == b.name # "err" /\ b.commit # 0
      rec == [name |-> IF b.name = "ok" THEN "branch" ELSE "unknown",
              commit_sha |-> b.commit,
              time_seconds |-> CommitTime(b.commit),
              summary |-> IF b.summary THEN "summary" ELSE "unknown",
              ref_name |-> ref,
              author_name |-> "author",
              is_current_branch |-> (headRefname # None /\ Unwrap(headRefname) = ref)]
  IN IF ~b.refname THEN None
     ELSE IF b.commit # 0 /\ ~b.author THEN None
     ELSE IF is_valid THEN Some(rec)
     ELSE None

\* Insertion of r into a list ordered by time_seconds descending, after every
\* element that does not compare greater (sort_by is stable).
RECURSIVE InsertByTime(_, _)
InsertByTime(r, s) ==
  IF s = <<>> THEN <<r>>
  ELSE IF r.time_seconds > Head(s).time_seconds THEN <<r>> \o s
  ELSE <<Head(s)>> \o InsertByTime(r, Tail(s))

\* The sort left out: the records stay in enumeration order.
SortByTimeDesc_Unsorted(s) == s

\* main.rs:313  records.sort_by(|a, b| b.time_seconds.cmp(&a.time_seconds))
RECURSIVE SortByTimeDesc(_)
SortByTimeDesc(s) ==
  IF s = <<>> THEN <<>>
  ELSE InsertByTime(s[Len(s)], SortByTimeDesc(SubSeq(s, 1, Len(s) - 1)))

\* The lines of `for rec in &records { println!("{}", rec) }`.
RecordLines(s) == [i \in 1..Len(s) |-> Line("Branch", s[i].ref_name)]

\* ---------------------------------------------------------------- table
\* get_table_data_from_branch_records: three rows per record.
ItemsLen(s) == RowsPerRecord * Len(s)

\* StatefulTable::next without the clamp at the last record.
StatefulTable_next_NoClamp(sel, len) ==
  IF sel = None THEN Some(0) ELSE Some(Unwrap(sel) + 3)

\* main.rs StatefulTable::next
StatefulTable_next(sel, len) ==
  IF sel = None THEN Some(0)
  ELSE IF Unwrap(sel) + 3 >= len THEN sel
  ELSE Some(Unwrap(sel) + 3)

\* main.rs StatefulTable::previous
StatefulTable_previous(sel) ==
  IF sel = None THEN Some(0)
  ELSE IF Unwrap(sel) < 3 THEN sel
  ELSE Some(Unwrap(sel) - 3)

\* records.get(i): Option<&BranchRecord>
Get(s, i) == IF i + 1 \in 1..Len(s) THEN Some(s[i + 1]) ELSE None

\* ------------------------------------------------------------------ Init
Init ==
  /\ pc = "start"
  /\ repoState \in {"Clean", "Merge"}
  /\ nBranches \in 0..MaxBranches
  /\ head \in {None} \cup {Some(k) : k \in 1..nBranches}
  /\ workTree \in Commits
  /\ iter = 0
  /\ records = <<>>
  /\ cursor = None
  /\ selected = None
  /\ result = None
  /\ treeish = None
  /\ stdout = <<>>
  /\ exitCode = -1
  /\ gitCalls = <<>>
  /\ checkoutCalls = 0
  /\ checkoutErr = "none"
  /\ outcome = "running"
  /\ quitPressed = FALSE
  /\ keyAfterQuit = FALSE
  /\ head0 = head
  /\ workTree0 = workTree
  /\ termSession = "none"
  /\ lastKey = "none"
  /\ current_branch_refname = None
  /\ resolvable = {}

\* A panic (panic!, unwrap on None): the process ends with status 101.
Panic(why) ==
  /\ pc' = "done"
  /\ exitCode' = 101
  /\ outcome' = why

\* main() returns: the process ends with status 0.
Return(why) ==
  /\ pc' = "done"
  /\ exitCode' = 0
  /\ outcome' = why

\* ------------------------------------------------------- main.rs: main()
\* main.rs:304-309  Repository::open
OpenRepo ==
  /\ pc = "start"
  /\ \E ok \in BOOLEAN :
       IF ok THEN /\ pc' = "enumerate"
                  /\ UNCHANGED <<exitCode, outcome>>
       ELSE Panic("open_failed")
  /\ UNCHANGED <<repoVars, iter, records, cursor, selected, result, stdout, checkoutVars, histVars>>
  /\ UNCHANGED <<termSession, lastKey, enumVars>>

\* main.rs:202-220  extract_local_branches up to repo.branches()
ExtractBegin ==
  /\ pc = "enumerate"
  /\ \E ok \in BOOLEAN :
       IF ok THEN /\ pc' = "branches"
                  /\ UNCHANGED <<exitCode, outcome>>
       ELSE Panic("enum_failed")
  /\ UNCHANGED <<repoVars, iter, records, cursor, selected, result, stdout, checkoutVars, histVars>>
  /\ UNCHANGED <<termSession, lastKey, enumVars>>

\* Every field a record needs resolves for raw branch b.
Resolvable(b) == b.name = "ok" /\ b.refname /\ b.commit # 0 /\ b.summary /\ b.author

\* main.rs:209-218  one turn of `for branch in branches`, the branch (or the
\* iterator's error, ok = FALSE) drawn from inputs
ExtractBranchFrom(inputs) ==
  /\ pc = "branches"
  /\ iter < nBranches
  /\ iter' = iter + 1
  /\ \E ok \in BOOLEAN, b \in inputs :
       LET rec == parse_local_branch(b, iter + 1, get_current_branch_refname(head))
       IN /\ records' = IF ok /\ rec # None THEN Append(records, Unwrap(rec)) ELSE records
          /\ resolvable' = IF ok /\ Resolvable(b) THEN resolvable \cup {iter + 1} ELSE resolvable
  /\ UNCHANGED <<pc, repoVars, cursor, selected, result, stdout, exitCode, outcome, checkoutVars, histVars>>
  /\ UNCHANGED <<termSession, lastKey, current_branch_refname>>

\* main.rs:209-218 over the branches of EnumInputs
ExtractBranch == ExtractBranchFrom(EnumInputs)

\* main.rs:311-317  the enumeration is over: sort, then print every record
RankAndList ==
  /\ pc = "branches"
  /\ iter = nBranches
  /\ records' = SortByTimeDesc(records)
  /\ stdout' = stdout \o RecordLines(records')
  /\ pc' = "check_state"
  /\ UNCHANGED <<repoVars, iter, cursor, selected, result, exitCode, outcome, checkoutVars, histVars>>
  /\ UNCHANGED <<termSession, lastKey, enumVars>>

\* main.rs:319-322  the clean-state check
CheckState ==
  /\ pc = "check_state"
  /\ IF repoState # "Clean"
     THEN /\ stdout' = Append(stdout, Line("Repository is not in a clean state", 0))
          /\ Return("not_clean")
     ELSE /\ pc' = "render_setup"
          /\ UNCHANGED <<stdout, exitCode, outcome>>
  /\ UNCHANGED <<repoVars, iter, records, cursor, selected, result, checkoutVars, histVars>>
  /\ UNCHANGED <<termSession, lastKey, enumVars>>

\* main.rs:227-232  the calls of the terminal initialisation that may fail.
SetupFailures == {"into_raw_mode", "Terminal::new", "hide_cursor"}

\* The terminal session after the initialisation failed at call f: never
\* acquired when into_raw_mode failed; otherwise the raw-mode handle was
\* acquired and is dropped by the early return.
SessionAfterFailedSetup(f) == IF f = "into_raw_mode" THEN "none" ELSE "released"

\* main.rs:345  Err(e) => println!("error rendering branch selection: {}", e)
RenderFailed ==
  /\ stdout' = Append(stdout, Line("error rendering branch selection", 0))
  /\ Return("render_failed")

\* main.rs:225-241  terminal initialisation, table.init()
RenderSetup ==
  /\ pc = "render_setup"
  /\ \E ok \in BOOLEAN :
       IF ok THEN /\ cursor' = Some(0)
                  /\ selected' = None
                  /\ pc' = "loop"
                  /\ termSession' = "raw"
                  /\ UNCHANGED <<stdout, exitCode, outcome>>
       ELSE /\ RenderFailed
            /\ \E f \in SetupFailures : termSession' = SessionAfterFailedSetup(f)
            /\ UNCHANGED <<cursor, selected>>
  /\ UNCHANGED <<repoVars, iter, records, result, checkoutVars, histVars>>
  /\ UNCHANGED <<lastKey, enumVars>>

\* main.rs:245-266, 268  terminal.draw(..)? or events.next()? returns Err
LoopError ==
  /\ pc = "loop"
  /\ RenderFailed
  /\ UNCHANGED <<repoVars, iter, records, cursor, selected, result, checkoutVars, histVars>>
  /\ termSession' = "released"
  /\ UNCHANGED <<lastKey, enumVars>>

\* main.rs:288-292  the value render_branch_selection returns after `break`
\* `terminal` goes out of scope on the return and on the unwinding of the
\* panic, which drops the raw-mode handle.
LoopReturn(sel) ==
  /\ termSession' = "released"
  /\ IF sel = None
     THEN /\ result' = None
          /\ pc' = "returned"
          /\ UNCHANGED <<exitCode, outcome>>
     ELSE IF Get(records, Unwrap(sel) \div 3) = None
     THEN /\ result' = None
          /\ Panic("unwrap_none")
     ELSE /\ result' = Get(records, Unwrap(sel) \div 3)
          /\ pc' = "returned"
          /\ UNCHANGED <<exitCode, outcome>>

\* The quit key ending the process on the spot (process::exit), which runs
\* no destructor.
KeyQuit_ProcessExit ==
  /\ pc = "loop"
  /\ quitPressed' = TRUE
  /\ lastKey' = "q"
  /\ result' = None
  /\ stdout' = Append(stdout, Line("Nothing to do", 0))
  /\ Return("cancelled")
  /\ UNCHANGED <<repoVars, iter, records, cursor, selected, checkoutVars, keyAfterQuit, termSession, enumVars>>

\* main.rs:270-272  Key::Char('q') => break
KeyQuit ==
  /\ pc = "loop"
  /\ quitPressed' = TRUE
  /\ LoopReturn(selected)
  /\ UNCHANGED <<repoVars, iter, records, cursor, selected, stdout, checkoutVars, keyAfterQuit>>
  /\ lastKey' = "q"
  /\ UNCHANGED enumVars

\* main.rs:273-275  Key::Down => table.next()
KeyDown ==
  /\ pc = "loop"
  /\ cursor' = StatefulTable_next(cursor, ItemsLen(records))
  /\ keyAfterQuit' = quitPressed
  /\ UNCHANGED <<pc, repoVars, iter, records, selected, result, stdout, exitCode, outcome, checkoutVars, quitPressed>>
  /\ lastKey' = "Down"
  /\ UNCHANGED <<termSession, enumVars>>

\* main.rs:276-278  Key::Up => table.previous()
KeyUp ==
  /\ pc = "loop"
  /\ cursor' = StatefulTable_previous(cursor)
  /\ keyAfterQuit' = quitPressed
  /\ UNCHANGED <<pc, repoVars, iter, records, selected, result, stdout, exitCode, outcome, checkoutVars, quitPressed>>
  /\ lastKey' = "Up"
  /\ UNCHANGED <<termSession, enumVars>>

\* The Enter key checking the cursor's record out on the spot, with the loop
\* still running.
KeyEnter_CheckoutInLoop ==
  /\ pc = "loop"
  /\ checkoutCalls < 2
  /\ Get(records, (IF cursor = None THEN 0 ELSE Unwrap(cursor)) \div 3) # None
  /\ selected' = cursor
  /\ keyAfterQuit' = quitPressed
  /\ LET record == Unwrap(Get(records, (IF cursor = None THEN 0 ELSE Unwrap(cursor)) \div 3))
     IN /\ workTree' = record.commit_sha
        /\ head' = Some(record.ref_name)
  /\ checkoutCalls' = checkoutCalls + 1
  /\ lastKey' = "Enter"
  /\ UNCHANGED <<pc, repoState, nBranches, head0, workTree0, iter, records, cursor, result, stdout, exitCode, outcome, treeish, gitCalls, checkoutErr, quitPressed>>
  /\ UNCHANGED <<termSession, enumVars>>

\* main.rs:279-282  Key::Char('\n') => { selected = table.state.selected(); break }
KeyEnter ==
  /\ pc = "loop"
  /\ selected' = cursor
  /\ keyAfterQuit' = quitPressed
  /\ LoopReturn(cursor)
  /\ UNCHANGED <<repoVars, iter, records, cursor, stdout, checkoutVars, quitPressed>>
  /\ lastKey' = "Enter"
  /\ UNCHANGED enumVars

\* main.rs:268, 283  any other key, or an event that is no input
KeyOther ==
  /\ pc = "loop"
  /\ keyAfterQuit' = quitPressed
  /\ UNCHANGED <<pc, repoVars, iter, records, cursor, selected, result, stdout, exitCode, outcome, checkoutVars, quitPressed>>
  /\ lastKey' = "Other"
  /\ UNCHANGED <<termSession, enumVars>>

\* Controller without the current-branch short-circuit.
Controller_NoShortCircuit ==
  /\ pc = "returned"
  /\ IF result = None
     THEN /\ stdout' = Append(stdout, Line("Nothing to do", 0))
          /\ Return("cancelled")
          /\ UNCHANGED checkoutCalls
     ELSE /\ stdout' = Append(stdout, Line("Checking out local branch", Unwrap(result).ref_name))
          /\ checkoutCalls' = checkoutCalls + 1
          /\ pc' = "revparse"
          /\ UNCHANGED <<exitCode, outcome>>
  /\ UNCHANGED <<repoVars, iter, records, cursor, selected, result, treeish, gitCalls, checkoutErr, histVars>>
  /\ UNCHANGED <<termSession, lastKey, enumVars>>

\* main.rs:324-334, 343  what main does with the returned selection
Controller ==
  /\ pc = "returned"
  /\ IF result = None
     THEN /\ stdout' = Append(stdout, Line("Nothing to do", 0))
          /\ Return("cancelled")
          /\ UNCHANGED checkoutCalls
     ELSE IF Unwrap(result).is_current_branch
     THEN /\ stdout' = Append(stdout, Line("Already at branch", Unwrap(result).ref_name))
          /\ Return("current")
          /\ UNCHANGED checkoutCalls
     ELSE /\ stdout' = Append(stdout, Line("Checking out local branch", Unwrap(result).ref_name))
          /\ checkoutCalls' = checkoutCalls + 1
          /\ pc' = "revparse"
          /\ UNCHANGED <<exitCode, outcome>>
  /\ UNCHANGED <<repoVars, iter, records, cursor, selected, result, treeish, gitCalls, checkoutErr, histVars>>
  /\ UNCHANGED <<termSession, lastKey, enumVars>>

\* main.rs:336-339  checkout_branch returned Err
CheckoutFailed(step) ==
  /\ checkoutErr' = step
  /\ stdout' = stdout \o <<Line("Failed to checkout branch", 0), Line("Please commit your changes or stash them", 0)>>
  /\ Return("checkout_failed")

\* main.rs:296  repo.revparse_single(record.commit_sha.as_str())?
RevparseStep ==
  /\ pc = "revparse"
  /\ gitCalls' = Append(gitCalls, <<"revparse_single", Unwrap(result).commit_sha>>)
  /\ \E ok \in BOOLEAN :
       IF ok THEN /\ treeish' = Some(Unwrap(result).commit_sha)
                  /\ pc' = "checkout_tree"
                  /\ UNCHANGED <<stdout, exitCode, outcome, checkoutErr>>
       ELSE /\ CheckoutFailed("revparse_single")
            /\ UNCHANGED treeish
  /\ UNCHANGED <<repoVars, iter, records, cursor, selected, result, checkoutCalls, histVars>>
  /\ UNCHANGED <<termSession, lastKey, enumVars>>

\* checkout_tree whose error is kept but does not end checkout_branch.
CheckoutTreeStep_DeferredError ==
  /\ pc = "checkout_tree"
  /\ gitCalls' = Append(gitCalls, <<"checkout_tree", Unwrap(treeish)>>)
  /\ \E ok \in BOOLEAN :
       IF ok THEN /\ workTree' = Unwrap(treeish)
                  /\ UNCHANGED checkoutErr
       ELSE /\ checkoutErr' = "checkout_tree"
            /\ UNCHANGED workTree
  /\ pc' = "set_head"
  /\ UNCHANGED <<repoState, nBranches, head, head0, workTree0, iter, records, cursor, selected, result, treeish, checkoutCalls, histVars, stdout, exitCode, outcome>>
  /\ UNCHANGED <<termSession, lastKey, enumVars>>

\* main.rs:297  repo.checkout_tree(&treeish, None)?
\* A safe checkout that fails (conflicting local changes) writes nothing.
CheckoutTreeStep ==
  /\ pc = "checkout_tree"
  /\ gitCalls' = Append(gitCalls, <<"checkout_tree", Unwrap(treeish)>>)
  /\ \E ok \in BOOLEAN :
       IF ok THEN /\ workTree' = Unwrap(treeish)
                  /\ pc' = "set_head"
                  /\ UNCHANGED <<stdout, exitCode, outcome, checkoutErr>>
       ELSE /\ CheckoutFailed("checkout_tree")
            /\ UNCHANGED workTree
  /\ UNCHANGED <<repoState, nBranches, head, head0, workTree0, iter, records, cursor, selected, result, treeish, checkoutCalls, histVars>>
  /\ UNCHANGED <<termSession, lastKey, enumVars>>

\* set_head replaced by a detaching update of HEAD to the commit.
SetHeadStep_Detached ==
  /\ pc = "set_head"
  /\ gitCalls' = Append(gitCalls, <<"set_head_detached", Unwrap(result).commit_sha>>)
  /\ \E ok \in BOOLEAN :
       IF ok THEN /\ head' = None
                  /\ stdout' = Append(stdout, Line("Done", 0))
                  /\ Return("checkout_ok")
                  /\ UNCHANGED checkoutErr
       ELSE /\ CheckoutFailed("set_head")
            /\ UNCHANGED head
  /\ UNCHANGED <<repoState, nBranches, workTree, head0, workTree0, iter, records, cursor, selected, result, treeish, checkoutCalls, histVars>>
  /\ UNCHANGED <<termSession, lastKey, enumVars>>

\* main.rs:298-299, 335  repo.set_head(record.ref_name.as_str())?; Ok(()) => "Done"
SetHeadStep ==
  /\ pc = "set_head"
  /\ gitCalls' = Append(gitCalls, <<"set_head", Unwrap(result).ref_name>>)
  /\ \E ok \in BOOLEAN :
       IF ok THEN /\ head' = Some(Unwrap(result).ref_name)
                  /\ stdout' = Append(stdout, Line("Done", 0))
                  /\ Return("checkout_ok")
                  /\ UNCHANGED checkoutErr
       ELSE /\ CheckoutFailed("set_head")
            /\ UNCHANGED head
  /\ UNCHANGED <<repoState, nBranches, workTree, head0, workTree0, iter, records, cursor, selected, result, treeish, checkoutCalls, histVars>>
  /\ UNCHANGED <<termSession, lastKey, enumVars>>

Next ==
  \/ OpenRepo
  \/ ExtractBegin
  \/ ExtractBranch
  \/ RankAndList
  \/ CheckState
  \/ RenderSetup
  \/ LoopError
  \/ KeyQuit
  \/ KeyDown
  \/ KeyUp
  \/ KeyEnter
  \/ KeyOther
  \/ Controller
  \/ RevparseStep
  \/ CheckoutTreeStep
  \/ SetHeadStep

Spec == Init /\ [][Next]_vars

\* ------------------------------------------------- ui.rs: BranchTable, loop
\* BranchTable::next leaving an absent selection absent.
BranchTable_next_KeepNone(sel, len) ==
  IF sel = None THEN None
  ELSE IF Unwrap(sel) + 3 >= len THEN sel
  ELSE Some(Unwrap(sel) + 3)

\* BranchTable::next wrapping to the first row past the last record.
BranchTable_next_Wrap(sel, len) ==
  IF sel = None THEN Some(0)
  ELSE IF Unwrap(sel) + 3 >= len THEN Some(0)
  ELSE Some(Unwrap(sel) + 3)

\* ui.rs BranchTable::next
BranchTable_next(sel, len) ==
  IF sel = None THEN Some(0)
  ELSE IF Unwrap(sel) + 3 >= len THEN sel
  ELSE Some(Unwrap(sel) + 3)

\* BranchTable::previous moving by one visual row instead of three.
BranchTable_previous_OneRow(sel) ==
  IF sel = None THEN Some(0)
  ELSE IF Unwrap(sel) < 1 THEN sel
  ELSE Some(Unwrap(sel) - 1)

\* ui.rs BranchTable::previous
BranchTable_previous(sel) ==
  IF sel = None THEN Some(0)
  ELSE IF Unwrap(sel) < 3 THEN sel
  ELSE Some(Unwrap(sel) - 3)

\* ui.rs BranchTable::selected_record
BranchTable_selected_record(sel, s) ==
  IF sel = None THEN None ELSE Get(s, Unwrap(sel) \div 3)

\* A fully populated record, as git.rs builds them.
BranchRecord(ref, c, cur) ==
  [name |-> "branch", commit_sha |-> c, time_seconds |-> CommitTime(c), summary |-> "summary", ref_name |-> ref, author_name |-> "author", is_current_branch |-> cur]

\* The record lists a BranchTable may be built over: distinct references, at
\* most one current branch.
RecordLists ==
  UNION {{[i \in 1..n |-> BranchRecord(i, f[i], i = cur)] : f \in [1..n -> Commits], cur \in 0..n} : n \in 0..MaxBranches}

\* BranchTable::new(records), before render_branch_selection is called.
InitUi ==
  /\ pc = "render_setup"
  /\ records \in RecordLists
  /\ repoState = "Clean"
  /\ nBranches = Len(records)
  /\ head = IF \E i \in 1..Len(records) : records[i].is_current_branch
            THEN Some(CHOOSE i \in 1..Len(records) : records[i].is_current_branch)
            ELSE None
  /\ workTree = 1
  /\ iter = nBranches
  /\ cursor = None
  /\ selected = None
  /\ result = None
  /\ treeish = None
  /\ stdout = <<>>
  /\ exitCode = -1
  /\ gitCalls = <<>>
  /\ checkoutCalls = 0
  /\ checkoutErr = "none"
  /\ outcome = "running"
  /\ quitPressed = FALSE
  /\ keyAfterQuit = FALSE
  /\ head0 = head
  /\ workTree0 = workTree
  /\ termSession = "none"
  /\ lastKey = "none"
  /\ current_branch_refname = None
  /\ resolvable = {}

uiFrame == <<repoVars, iter, records, selected, stdout, exitCode, checkoutVars>>

\* ui.rs:104-113  terminal initialisation, table.init()
UiRenderSetup ==
  /\ pc = "render_setup"
  /\ \E ok \in BOOLEAN :
       IF ok THEN /\ cursor' = Some(0)
                  /\ pc' = "loop"
                  /\ termSession' = "raw"
                  /\ UNCHANGED outcome
       ELSE /\ pc' = "returned_err"
            /\ outcome' = "render_failed"
            /\ \E f \in SetupFailures : termSession' = SessionAfterFailedSetup(f)
            /\ UNCHANGED cursor
  /\ UNCHANGED <<uiFrame, result, histVars>>
  /\ UNCHANGED <<lastKey, enumVars>>

\* ui.rs:117-139, 141  terminal.draw(..)? or events.next()? returns Err
UiLoopError ==
  /\ pc = "loop"
  /\ pc' = "returned_err"
  /\ outcome' = "render_failed"
  /\ UNCHANGED <<uiFrame, cursor, result, histVars>>
  /\ termSession' = "released"
  /\ UNCHANGED <<lastKey, enumVars>>

\* ui.rs:143-145  Key::Char('q') => table.deselect()
UiKeyQuit ==
  /\ pc = "loop"
  /\ cursor' = None
  /\ quitPressed' = TRUE
  /\ keyAfterQuit' = (keyAfterQuit \/ quitPressed)
  /\ UNCHANGED <<uiFrame, pc, result, outcome>>
  /\ lastKey' = "q"
  /\ UNCHANGED <<termSession, enumVars>>

\* ui.rs:146-148  Key::Down => table.next()
UiKeyDown ==
  /\ pc = "loop"
  /\ cursor' = BranchTable_next(cursor, ItemsLen(records))
  /\ keyAfterQuit' = (keyAfterQuit \/ quitPressed)
  /\ UNCHANGED <<uiFrame, pc, result, outcome, quitPressed>>
  /\ lastKey' = "Down"
  /\ UNCHANGED <<termSession, enumVars>>

\* ui.rs:149-151  Key::Up => table.previous()
UiKeyUp ==
  /\ pc = "loop"
  /\ cursor' = BranchTable_previous(cursor)
  /\ keyAfterQuit' = (keyAfterQuit \/ quitPressed)
  /\ UNCHANGED <<uiFrame, pc, result, outcome, quitPressed>>
  /\ lastKey' = "Up"
  /\ UNCHANGED <<termSession, enumVars>>

\* ui.rs:152-154, 160  Key::Char('\n') => break; Ok(table.selected_record())
UiKeyEnter ==
  /\ pc = "loop"
  /\ result' = BranchTable_selected_record(cursor, records)
  /\ pc' = "returned"
  /\ keyAfterQuit' = (keyAfterQuit \/ quitPressed)
  /\ UNCHANGED <<uiFrame, cursor, outcome, quitPressed>>
  /\ lastKey' = "Enter"
  /\ termSession' = "released"
  /\ UNCHANGED enumVars

\* ui.rs:141, 155  any other key, or an event that is no input
UiKeyOther ==
  /\ pc = "loop"
  /\ keyAfterQuit' = (keyAfterQuit \/ quitPressed)
  /\ UNCHANGED <<uiFrame, pc, cursor, result, outcome, quitPressed>>
  /\ lastKey' = "Other"
  /\ UNCHANGED <<termSession, enumVars>>

NextUi ==
  \/ UiRenderSetup
  \/ UiLoopError
  \/ UiKeyQuit
  \/ UiKeyDown
  \/ UiKeyUp
  \/ UiKeyEnter
  \/ UiKeyOther

SpecUi == InitUi /\ [][NextUi]_vars

\* ------------------------------------- main.rs: the enumeration on its own
\* main.rs:209-218 over every raw branch the backend may hand out
ExtractBranchAny == ExtractBranchFrom(RawBranches)

\* main.rs:311  the state extract_local_branches is called in, on a clean
\* repository.
InitEnum ==
  /\ pc = "enumerate"
  /\ repoState = "Clean"
  /\ nBranches \in 0..MaxBranches
  /\ head \in {None} \cup {Some(k) : k \in 1..nBranches}
  /\ workTree = 1
  /\ iter = 0
  /\ records = <<>>
  /\ cursor = None
  /\ selected = None
  /\ result = None
  /\ treeish = None
  /\ stdout = <<>>
  /\ exitCode = -1
  /\ gitCalls = <<>>
  /\ checkoutCalls = 0
  /\ checkoutErr = "none"
  /\ outcome = "running"
  /\ quitPressed = FALSE
  /\ keyAfterQuit = FALSE
  /\ head0 = head
  /\ workTree0 = workTree
  /\ termSession = "none"
  /\ lastKey = "none"
  /\ current_branch_refname = None
  /\ resolvable = {}

NextEnum ==
  \/ ExtractBegin
  \/ ExtractBranchAny
  \/ RankAndList

SpecEnum == InitEnum /\ [][NextEnum]_vars

\* ------------------------------------------ git.rs: extract_local_branches
\* git.rs get_current_branch_refname for HEAD h in a repository whose
\* branches are 1..n.  head_detached() answers (detachedOk) or fails; a
\* detached HEAD reported as such gives None.  Otherwise repo.head() is read:
\* it fails when the branch HEAD names does not exist (h > n, unborn), and a
\* detached HEAD resolves to the reference "HEAD" itself (0, no branch).
git_get_current_branch_refname(h, n, detachedOk) ==
  IF detachedOk /\ h = None THEN None
  ELSE IF h = None THEN Some(0)
  ELSE IF Unwrap(h) \in 1..n THEN Some(Unwrap(h))
  ELSE None

\* parse_local_branch that marks every branch current when HEAD is on a branch.
git_parse_local_branch_AnyCurrent(b, ref, headRefname) ==
  IF b.name # "ok" \/ ~b.refname \/ b.commit = 0 \/ ~b.summary \/ ~b.author THEN None
  ELSE Some([name |-> "branch", commit_sha |-> b.commit, time_seconds |-> CommitTime(b.commit), summary |-> "summary", ref_name |-> ref, author_name |-> "author", is_current_branch |-> (headRefname # None)])

\* git.rs parse_local_branch: every `?` returns None; the record is built
\* only from resolved values.
git_parse_local_branch(b, ref, headRefname) ==
  IF b.name # "ok" THEN None
  ELSE IF ~b.refname THEN None
  ELSE IF b.commit = 0 THEN None
  ELSE IF ~b.summary THEN None
  ELSE IF ~b.author THEN None
  ELSE Some([name |-> "branch",
             commit_sha |-> b.commit,
             time_seconds |-> CommitTime(b.commit),
             summary |-> "summary",
             ref_name |-> ref,
             author_name |-> "author",
             is_current_branch |-> (headRefname # None /\ ref = Unwrap(headRefname))])

\* The state git.rs extract_local_branches is called in; HEAD may name a
\* branch that does not exist yet (nBranches + 1).
InitGit ==
  /\ pc = "enumerate"
  /\ repoState = "Clean"
  /\ nBranches \in 0..MaxBranches
  /\ head \in {None} \cup {Some(k) : k \in 1..(nBranches + 1)}
  /\ workTree = 1
  /\ iter = 0
  /\ records = <<>>
  /\ cursor = None
  /\ selected = None
  /\ result = None
  /\ treeish = None
  /\ stdout = <<>>
  /\ exitCode = -1
  /\ gitCalls = <<>>
  /\ checkoutCalls = 0
  /\ checkoutErr = "none"
  /\ outcome = "running"
  /\ quitPressed = FALSE
  /\ keyAfterQuit = FALSE
  /\ head0 = head
  /\ workTree0 = workTree
  /\ termSession = "none"
  /\ lastKey = "none"
  /\ current_branch_refname = None
  /\ resolvable = {}

gitFrame == <<repoVars, cursor, selected, result, stdout, checkoutVars, histVars, termSession, lastKey>>

\* git.rs:95-99, 112  current_branch_refname, repo.branches()
GitExtractBegin ==
  /\ pc = "enumerate"
  /\ \E detachedOk \in BOOLEAN :
       current_branch_refname' = git_get_current_branch_refname(head, nBranches, detachedOk)
  /\ \E ok \in BOOLEAN :
       IF ok THEN /\ pc' = "branches"
                  /\ UNCHANGED <<exitCode, outcome>>
       ELSE Panic("enum_failed")
  /\ UNCHANGED <<gitFrame, iter, records, resolvable>>

\* git.rs:101-110  one turn of `for branch in branches`
GitExtractBranch ==
  /\ pc = "branches"
  /\ iter < nBranches
  /\ iter' = iter + 1
  /\ \E ok \in BOOLEAN, b \in RawBranches :
       LET rec == git_parse_local_branch(b, iter + 1, current_branch_refname)
       IN /\ records' = IF ok /\ rec # None THEN Append(records, Unwrap(rec)) ELSE records
          /\ resolvable' = IF ok /\ Resolvable(b) THEN resolvable \cup {iter + 1} ELSE resolvable
  /\ UNCHANGED <<gitFrame, pc, exitCode, outcome, current_branch_refname>>

\* git.rs:115  records
GitExtractReturn ==
  /\ pc = "branches"
  /\ iter = nBranches
  /\ pc' = "extracted"
  /\ UNCHANGED <<gitFrame, iter, records, exitCode, outcome, enumVars>>

NextGit ==
  \/ GitExtractBegin
  \/ GitExtractBranch
  \/ GitExtractReturn

SpecGit == InitGit /\ [][NextGit]_vars

\* ------------------------------------- main.rs: the ranking on its own
\* The records extract_local_branches returns for n valid branches, the tip
\* of branch i being commit (i * k) % NumCommits + 1.
ExtractedRecords(n, k) ==
  [i \in 1..n |-> BranchRecord(i, ((i * k) % NumCommits) + 1, FALSE)]

\* main.rs:311  extract_local_branches has returned the records of up to
\* MaxListed valid branches; HEAD is detached and the repository clean.
InitRank ==
  /\ pc = "branches"
  /\ repoState = "Clean"
  /\ nBranches \in 0..MaxListed
  /\ head = None
  /\ workTree = 1
  /\ iter = nBranches
  /\ \E k \in Commits : records = ExtractedRecords(nBranches, k)
  /\ cursor = None
  /\ selected = None
  /\ result = None
  /\ treeish = None
  /\ stdout = <<>>
  /\ exitCode = -1
  /\ gitCalls = <<>>
  /\ checkoutCalls = 0
  /\ checkoutErr = "none"
  /\ outcome = "running"
  /\ quitPressed = FALSE
  /\ keyAfterQuit = FALSE
  /\ head0 = head
  /\ workTree0 = workTree
  /\ termSession = "none"
  /\ lastKey = "none"
  /\ current_branch_refname = None
  /\ resolvable = 1..nBranches

NextRank ==
  \/ RankAndList
  \/ CheckState

SpecRank == InitRank /\ [][NextRank]_vars

\* ======================================================== claims C1..C10
\* The run has left the selection loop through a key event.
LoopEndedByKey ==
  pc \in {"returned", "revparse", "checkout_tree", "set_head"} \/ outcome \in {"cancelled", "current", "unwrap_none", "checkout_failed", "checkout_ok"}

\* The last line printed is msg.
LastLine(msg) == stdout # <<>> /\ stdout[Len(stdout)].msg = msg

\* The backend calls checkout_branch makes for record r, in order.
ExpectedCalls(r) ==
  << <<"revparse_single", r.commit_sha>>, <<"checkout_tree", r.commit_sha>>, <<"set_head", r.ref_name>> >>

\* C1: when checkout_branch fails at any step (revparse_single, checkout_tree
\* or set_head), HEAD and the working tree have the values they had before
\* the attempt.
C1_FailedCheckoutLeavesRepository ==
  checkoutErr # "none" => (head = head0 /\ workTree = workTree0)

\* C2: when checkout_branch fails at revparse_single or at checkout_tree,
\* set_head was never called and HEAD has the value it had before the call.
C2_TreeFailureSkipsSetHead ==
  checkoutErr \in {"revparse_single", "checkout_tree"} =>
    /\ head = head0
    /\ \A i \in 1..Len(gitCalls) : gitCalls[i][1] # "set_head"

\* C2 witness: a run whose checkout_tree step failed.
C2_Witness ==
  pc = "done" /\ checkoutErr = "checkout_tree" /\ Len(gitCalls) = 2

\* C3: once the quit key was received in the loop, the loop is over with no
\* record selected, and no key event was processed after it.
C3_QuitEndsLoop ==
  quitPressed => (pc \in {"returned", "done"} /\ result = None /\ ~keyAfterQuit)

\* C4: when the quit key was pressed before any Enter, the loop returns no
\* record whatever keys follow, checkout_branch is never called, and a
\* finished run has reported "Nothing to do".
C4_QuitBeforeEnterSelectsNothing ==
  (quitPressed /\ pc \in {"returned", "done"}) =>
    /\ result = None
    /\ checkoutCalls = 0
    /\ (pc = "done" => LastLine("Nothing to do"))

\* C5: when the confirmed record is the current branch, checkout_branch is
\* never called, no backend call is made, HEAD and the working tree are
\* unchanged, and the run ends with exit status 0.
C5_CurrentBranchNoCheckout ==
  (result # None /\ Unwrap(result).is_current_branch) =>
    /\ pc \in {"returned", "done"}
    /\ checkoutCalls = 0
    /\ gitCalls = <<>>
    /\ head = head0
    /\ workTree = workTree0
    /\ (pc = "done" => exitCode = 0 /\ outcome = "current")

\* C5 witness: a finished run in which the current branch was confirmed.
C5_Witness ==
  pc = "done" /\ result # None /\ Unwrap(result).is_current_branch /\ selected # None

\* C6: when a record that is not the current branch is confirmed,
\* checkout_branch is called exactly once, resolves that record's commit_sha,
\* applies it, and sets HEAD to that record's ref_name; on success HEAD is
\* that ref_name.
C6_NonCurrentCheckedOutOnce ==
  /\ checkoutCalls <= 1
  /\ (result # None /\ ~Unwrap(result).is_current_branch /\ pc # "returned") =>
       /\ checkoutCalls = 1
       /\ Len(gitCalls) <= 3
       /\ gitCalls = SubSeq(ExpectedCalls(Unwrap(result)), 1, Len(gitCalls))
       /\ (outcome = "checkout_ok" =>
             /\ Len(gitCalls) = 3
             /\ head = Some(Unwrap(result).ref_name)
             /\ workTree = Unwrap(result).commit_sha)

\* C6 witness: a successful checkout of a branch other than the one HEAD was on.
C6_Witness ==
  outcome = "checkout_ok" /\ head # head0 /\ head0 # None /\ workTree # workTree0

\* C7: when the repository is not clean, no branch record is printed, the
\* selection loop is never entered and checkout_branch is never called.
C7_NotCleanAbortsBeforeListing ==
  repoState # "Clean" =>
    /\ \A i \in 1..Len(stdout) : stdout[i].msg # "Branch"
    /\ pc # "loop"
    /\ cursor = None
    /\ checkoutCalls = 0

\* C8: the exit status is 1 when the repository is not clean, the enumeration
\* failed, rendering failed or checkout failed, and 0 when the user
\* cancelled, confirmed the current branch, or checkout succeeded.
C8_ExitCodes ==
  pc = "done" =>
    /\ (outcome \in {"not_clean", "enum_failed", "render_failed", "checkout_failed"} => exitCode = 1)
    /\ (outcome \in {"cancelled", "current", "checkout_ok"} => exitCode = 0)

\* C9: when the ranked record list is empty, whatever key ends the loop, no
\* record is selected, the run does not crash, a finished run has reported
\* "Nothing to do", and HEAD and the working tree are unchanged.
C9_EmptyListNothingToDo ==
  (records = <<>> /\ LoopEndedByKey) =>
    /\ result = None
    /\ exitCode # 101
    /\ (pc = "done" => outcome = "cancelled" /\ LastLine("Nothing to do"))
    /\ head = head0
    /\ workTree = workTree0

\* C10: on a non-empty ranked list, every cursor the loop reaches maps (row / 3)
\* to an index inside the list; Enter ends the loop with the record at that
\* index as the selection; and Enter at row 0 selects a record whose
\* time_seconds is the greatest of the list.
C10_EnterConfirmsCursorRecord ==
  (cursor # None /\ records # <<>>) =>
    LET idx == Unwrap(cursor) \div RowsPerRecord IN
    /\ idx < Len(records)
    /\ (selected # None =>
          /\ pc # "loop"
          /\ outcome # "unwrap_none"
          /\ selected = cursor
          /\ result = Some(records[idx + 1])
          /\ (Unwrap(cursor) = 0 =>
                \A i \in 1..Len(records) : Unwrap(result).time_seconds >= records[i].time_seconds))

\* C10 witness: Enter pressed after the cursor was moved down to the second
\* record of a list whose records differ in time.
C10_Witness ==
  /\ selected = Some(3)
  /\ Len(records) >= 2
  /\ result = Some(records[2])
  /\ records[1].time_seconds > records[2].time_seconds

\* ======================================================= claims C11..C20
\* C11: the terminal session is in raw mode only while the selection loop
\* runs: on every way out of render_branch_selection (Enter, the quit key, an
\* error of the setup, of drawing or of reading input) it has been released,
\* and no run ends with the terminal in raw mode.
C11_TerminalReleasedOnEveryExit ==
  /\ (termSession = "raw" <=> pc = "loop")
  /\ (pc = "done" => termSession \in {"none", "released"})
  /\ (outcome = "render_failed" => termSession \in {"none", "released"})

\* C11 witness: a run that acquired the session and left the loop on an error.
C11_Witness ==
  pc = "done" /\ outcome = "render_failed" /\ termSession = "released" /\ cursor # None

\* The positions of the records marked current.
CurrentRecords == {i \in 1..Len(records) : records[i].is_current_branch}

\* C12: at most one record is marked current; a record is marked current
\* exactly when HEAD is on a branch and that branch's reference is the
\* record's ref_name; with HEAD detached no record is marked current.
C12_CurrentBranchMarking ==
  /\ Cardinality(CurrentRecords) <= 1
  /\ \A i \in 1..Len(records) :
       records[i].is_current_branch <=> (head # None /\ Unwrap(head) = records[i].ref_name)
  /\ (head = None => CurrentRecords = {})

\* C12 witness: the enumeration returned several records, one of them current.
C12_Witness ==
  pc = "extracted" /\ Len(records) >= 2 /\ Cardinality(CurrentRecords) = 1

\* C13: the records are exactly the visited branches whose name, reference
\* name, tip commit, summary and author all resolve, one record each; no
\* record carries a placeholder value; and a malformed branch does not end
\* the enumeration.
C13_OneRecordPerResolvableBranch ==
  (pc \notin {"start", "enumerate"} /\ outcome # "enum_failed") =>
    /\ {records[i].ref_name : i \in 1..Len(records)} = resolvable
    /\ Len(records) = Cardinality(resolvable)
    /\ \A i \in 1..Len(records) : records[i].name # "unknown" /\ records[i].summary # "unknown"
    /\ (iter < nBranches => pc = "branches")

\* s is ordered by time_seconds, descending.
SortedByTimeDesc(s) ==
  \A i, j \in 1..Len(s) : i < j => s[i].time_seconds >= s[j].time_seconds

\* s and t hold the same records, each as often.
IsPermutation(s, t) ==
  /\ Len(s) = Len(t)
  /\ \A i \in 1..Len(s) :
       Cardinality({k \in 1..Len(s) : s[k] = s[i]}) = Cardinality({k \in 1..Len(t) : t[k] = s[i]})

\* The enumeration is over and the list has been ranked.
Ranked == pc \notin {"start", "enumerate", "branches"} /\ outcome \notin {"open_failed", "enum_failed"}

\* C14: the list handed to the selection loop is ordered by time_seconds
\* descending, and the ranking step yields a permutation of the records the
\* enumeration produced.
C14_RankedDescendingPermutation ==
  /\ [](Ranked => SortedByTimeDesc(records))
  /\ [][(pc = "branches" /\ pc' = "check_state") => IsPermutation(records, records')]_vars

\* C14 witness: the loop runs over three records of which the first two
\* were enumerated in the opposite order.
C14_Witness ==
  /\ pc = "loop"
  /\ Len(records) = 3
  /\ records[1].ref_name > records[2].ref_name
  /\ records[1].time_seconds > records[2].time_seconds

\* The smaller of two numbers.
Min(a, b) == IF a <= b THEN a ELSE b

\* C15: the list handed to the selection loop has min(valid records, 50)
\* entries, ordered by recency.
C15_TruncatedToFifty ==
  pc = "render_setup" =>
    /\ Len(records) = Min(Cardinality(resolvable), 50)
    /\ SortedByTimeDesc(records)

\* The greater of two numbers.
Max(a, b) == IF a >= b THEN a ELSE b

\* The header row of the last record.
LastHeaderRow == RowsPerRecord * (Len(records) - 1)

\* A step of the loop that handled key k and stayed in the loop.
KeyStep(k) == pc = "loop" /\ pc' = "loop" /\ lastKey' = k

\* The cursor rests on a row that is a multiple of 3.
OnHeaderRow == cursor # None /\ Unwrap(cursor) % RowsPerRecord = 0

\* C16: on a non-empty list, the Down key takes a cursor at row r, a multiple
\* of 3, to min(r + 3, LastHeaderRow); so it never wraps, and at
\* LastHeaderRow it leaves the cursor where it is.
C16_DownClamps ==
  [][(KeyStep("Down") /\ OnHeaderRow /\ records # <<>>) =>
       cursor' = Some(Min(Unwrap(cursor) + 3, LastHeaderRow))]_vars

\* C16 witness: Down has brought the cursor to the last of three records.
C16_Witness ==
  pc = "loop" /\ lastKey = "Down" /\ Len(records) = 3 /\ cursor = Some(6) /\ ~quitPressed

\* C17: the Up key takes a cursor at row r, a multiple of 3, to max(r - 3, 0):
\* to r - 3 when r >= 3, and it stays at 0 otherwise.
C17_UpClamps ==
  [][(KeyStep("Up") /\ OnHeaderRow) =>
       cursor' = Some(Max(Unwrap(cursor) - 3, 0))]_vars

\* C17 witness: Up has brought the cursor from the last of three records to
\* the second.
C17_Witness ==
  pc = "loop" /\ lastKey = "Up" /\ Len(records) = 3 /\ cursor = Some(3) /\ ~quitPressed

\* C18: in every state of the selection loop over a non-empty record list the
\* cursor is set, is a multiple of 3, and lies between 0 and
\* 3 * (recordCount - 1): it rests on the header row of an existing record.
C18_CursorOnExistingHeaderRow ==
  (pc = "loop" /\ records # <<>>) =>
    /\ OnHeaderRow
    /\ Unwrap(cursor) >= 0
    /\ Unwrap(cursor) <= LastHeaderRow

\* The stage of the run a position belongs to: 1 enumerate, 2 rank,
\* 3 selection loop, 4 checkout, 5 ended.
StageOf(p) ==
  CASE p \in {"start", "enumerate", "branches"} -> 1
    [] p \in {"check_state", "render_setup"} -> 2
    [] p = "loop" -> 3
    [] p \in {"returned", "revparse", "checkout_tree", "set_head"} -> 4
    [] OTHER -> 5

\* C19: the run goes through enumerate, rank, selection loop and checkout in
\* that order and never back; no step taken in the selection loop changes
\* HEAD or the working tree or calls into the checkout; the checkout is
\* invoked only once the loop has ended and the terminal is released, and at
\* most once in a run.
C19_StrictlySequenced ==
  /\ [][StageOf(pc') >= StageOf(pc)]_vars
  /\ [][pc = "loop" => /\ head' = head
                       /\ workTree' = workTree
                       /\ gitCalls' = gitCalls
                       /\ checkoutCalls' = checkoutCalls]_vars
  /\ [](checkoutCalls <= 1)
  /\ [](checkoutCalls = 1 => StageOf(pc) >= 4 /\ termSession = "released")
  /\ [](StageOf(pc) <= 3 => gitCalls = <<>> /\ head = head0 /\ workTree = workTree0)

\* C19 witness: after Down and Enter the one checkout has run to its end and
\* moved HEAD.
C19_Witness ==
  /\ pc = "done"
  /\ outcome = "checkout_ok"
  /\ checkoutCalls = 1
  /\ Len(gitCalls) = 3
  /\ lastKey = "Enter"
  /\ selected = Some(3)
  /\ head # head0

\* C20: in the ui.rs loop the quit key leaves the cursor without a selection;
\* a Down or Up key handled in that state sets the cursor to row 0; and an
\* Enter that follows on a non-empty list returns the first record.
C20_MoveAfterQuitReselectsFirst ==
  /\ []((pc = "loop" /\ lastKey = "q") => cursor = None)
  /\ [][((KeyStep("Down") \/ KeyStep("Up")) /\ cursor = None) =>
          cursor' = Some(0)]_vars
  /\ [][(/\ pc = "loop"
         /\ quitPressed
         /\ lastKey \in {"Down", "Up"}
         /\ cursor = Some(0)
         /\ records # <<>>
         /\ lastKey' = "Enter") =>
          (pc' = "returned" /\ result' = Some(records[1]))]_vars

\* C20 witness: quit, then Down, then Enter has returned the first of
\* several records.
C20_Witness ==
  /\ pc = "returned"
  /\ quitPressed
  /\ keyAfterQuit
  /\ lastKey = "Enter"
  /\ cursor = Some(0)
  /\ Len(records) >= 2
  /\ result = Some(records[1])

====
